---- MODULE Spec2Model ----
(***************************************************************************)
(* Classroom relay / PIR controller firmware (dwell-control esp32/main.cpp) *)
(* modelled as a state machine: setup() runs once per boot, loop() forever. *)
(* Strings are sequences of character codes, the EEPROM is a byte array.    *)
(***************************************************************************)
EXTENDS Integers, Sequences, FiniteSets, TLC

VARIABLES
    pc,              \* position of the single thread of control
    swIdx,           \* loop index i of the for loops over the four switches
    attempts,        \* connectWiFi: int attempts
    relayStates,     \* bool relayStates[4]
    manualOverride,  \* bool manualOverride[4]
    pirState,        \* bool pirState
    pinLevel,        \* output level of every relay GPIO, by pin number
    deviceId,        \* String deviceId
    authToken,       \* String authToken
    EEPROM,          \* the 512 bytes of persistent storage
    wifiConnected,   \* WiFi.status() == WL_CONNECTED
    wifiBegun,       \* WiFi.begin() was called in this boot
    cbEvent,         \* the callback registered with webSocket.onEvent
    sampled,         \* the level digitalRead found in the last program step, if any
    wsEvent,         \* the event webSocket.loop() delivered in the last program step
    wsSent,          \* frames given to webSocket.sendTXT by the last program step
    httpSent,        \* HTTP POSTs issued by the last program step
    now,             \* millis()
    lastHeartbeat,   \* unsigned long lastHeartbeat
    lastSensorRead,  \* unsigned long lastSensorRead
    json             \* firmware_common.h: the String given to fwInjectProtocolVersion

vars == <<pc, swIdx, attempts, relayStates, manualOverride, pirState, pinLevel,
          deviceId, authToken, EEPROM, wifiConnected, wifiBegun, cbEvent,
          sampled, wsEvent, wsSent, httpSent, now, lastHeartbeat, lastSensorRead,
          json>>

----------------------------------------------------------------------------
(* Program constants *)

NUM_SWITCHES == 4
Switches == 0..(NUM_SWITCHES - 1)

RELAY_PINS == [i \in Switches |-> CASE i = 0 -> 2 [] i = 1 -> 4 [] i = 2 -> 5 [] i = 3 -> 18]
MANUAL_SWITCH_PINS == [i \in Switches |-> CASE i = 0 -> 14 [] i = 1 -> 12 [] i = 2 -> 13 [] i = 3 -> 15]
RelayPinSet == {RELAY_PINS[i] : i \in Switches}

HAS_PIR_SENSOR == TRUE
\* seconds
PIR_TIMEOUT == 300
PIR_LINKED_SWITCHES == [i \in Switches |-> i = 0]

EEPROM_SIZE == 512
DEVICE_ID_ADDR == 0
AUTH_TOKEN_ADDR == 64
WIFI_MAX_ATTEMPTS == 20
HEARTBEAT_INTERVAL == 30000
SENSOR_INTERVAL == 1000

LOW == "LOW"
HIGH == "HIGH"
\* a GPIO that was not driven since reset
FLOATING == "FLOATING"
Level(b) == IF b THEN HIGH ELSE LOW

AllFalse == [i \in Switches |-> FALSE]

----------------------------------------------------------------------------
(* Strings: sequences of character codes *)

Colon == 58
ErasedByte == 255

\* WiFi.macAddress(): "24:6F:28:A1:B2:C3"
MacAddress == <<50, 52, 58, 54, 70, 58, 50, 56, 58, 65, 49, 58, 66, 50, 58, 67, 51>>

\* String::replace(find, "") for a one-character find
RemoveChar(s, c) == SelectSeq(s, LAMBDA x : x # c)

\* "sw" + String(i + 1)
SwitchName(i) == <<115, 119, 48 + i + 1>>

Repeat(c, n) == [k \in 1..n |-> c]

----------------------------------------------------------------------------
(* Arithmetic *)

\* unsigned long (32 bits) as <<high half, low half>>, each 16 bits wide
HalfModulus == 65536
U32(n) == <<(n \div HalfModulus) % HalfModulus, n % HalfModulus>>
U32Add(a, b) ==
    LET lo == a[2] + b[2]
    IN  <<(a[1] + b[1] + (lo \div HalfModulus)) % HalfModulus, lo % HalfModulus>>
U32Sub(a, b) ==
    LET lo == a[2] - b[2]
        borrow == IF lo < 0 THEN 1 ELSE 0
    IN  <<(a[1] - b[1] - borrow + HalfModulus) % HalfModulus,
          (lo + HalfModulus) % HalfModulus>>
U32Greater(a, b) == a[1] > b[1] \/ (a[1] = b[1] /\ a[2] > b[2])

\* millis() - since, in unsigned long arithmetic
Elapsed(t, since) == U32Sub(t, since)

----------------------------------------------------------------------------
(* EEPROM library: NUL-terminated strings in a byte array *)

ErasedEEPROM == [a \in 0..(EEPROM_SIZE - 1) |-> ErasedByte]

\* EEPROM.writeString(address, value): the characters and a terminating NUL;
\* nothing is written when the string does not fit
WriteString(mem, address, value) ==
    IF address + Len(value) > EEPROM_SIZE
    THEN mem
    ELSE [a \in 0..(EEPROM_SIZE - 1) |->
            IF a >= address /\ a < address + Len(value) THEN value[a - address + 1]
            ELSE IF a = address + Len(value) THEN 0
            ELSE mem[a]]

\* EEPROM.readString(address): the bytes up to the first NUL, or the empty
\* string when there is no NUL up to the end of the storage
ReadString(mem, address) ==
    LET nuls == {a \in address..(EEPROM_SIZE - 1) : mem[a] = 0}
    IN  IF nuls = {}
        THEN <<>>
        ELSE LET end == CHOOSE a \in nuls : \A b \in nuls : a <= b
             IN  [k \in 1..(end - address) |-> mem[address + k - 1]]

----------------------------------------------------------------------------
(* Environment: what the backend may answer, what the network may deliver *)

\* the longest identifier and the longest token the backend issues
MaxIdLen == 64
MaxTokenLen == 2

ShortId == <<100, 49>>
LongId == Repeat(65, MaxIdLen)
ResponseIds == {ShortId, LongId}
ResponseTokens == {Repeat(116, MaxTokenLen)}
HttpCodes == {200, 201, 404, -1}

NoEvent == [type |-> "none"]
NoSample == <<>>

----------------------------------------------------------------------------
(* Power-up: statics take their initialisers, no GPIO is driven *)

PowerUp(mem) ==
    /\ pc = "setup"
    /\ swIdx = 0
    /\ attempts = 0
    /\ relayStates = AllFalse
    /\ manualOverride = AllFalse
    /\ pirState = FALSE
    /\ pinLevel = [p \in RelayPinSet |-> FLOATING]
    /\ deviceId = <<>>
    /\ authToken = <<>>
    /\ EEPROM = mem
    /\ wifiConnected = FALSE
    /\ wifiBegun = FALSE
    /\ cbEvent = "none"
    /\ sampled = NoSample
    /\ wsEvent = NoEvent
    /\ wsSent = <<>>
    /\ httpSent = <<>>
    /\ now = U32(0)
    /\ lastHeartbeat = U32(0)
    /\ lastSensorRead = U32(0)
    /\ json = <<>>

Init == PowerUp(ErasedEEPROM)

\* ESP.restart() or a power cycle: RAM is lost, the EEPROM is kept
Restart ==
    /\ pc' = "setup"
    /\ swIdx' = 0
    /\ attempts' = 0
    /\ relayStates' = AllFalse
    /\ manualOverride' = AllFalse
    /\ pirState' = FALSE
    /\ pinLevel' = [p \in RelayPinSet |-> FLOATING]
    /\ deviceId' = <<>>
    /\ authToken' = <<>>
    /\ EEPROM' = EEPROM
    /\ wifiConnected' = FALSE
    /\ wifiBegun' = FALSE
    /\ cbEvent' = "none"
    /\ sampled' = NoSample
    /\ wsEvent' = NoEvent
    /\ wsSent' = <<>>
    /\ httpSent' = <<>>
    /\ now' = U32(0)
    /\ lastHeartbeat' = U32(0)
    /\ lastSensorRead' = U32(0)
    /\ json' = <<>>

\* what a step that sends nothing and receives nothing leaves behind
Quiet == sampled' = NoSample /\ wsEvent' = NoEvent /\ wsSent' = <<>> /\ httpSent' = <<>>

----------------------------------------------------------------------------
(* setup() *)

\* lines 26-31, entering the for loop of line 33
setup ==
    /\ pc = "setup"
    /\ pc' = "setup_pins"
    /\ swIdx' = 0
    /\ Quiet
    /\ UNCHANGED <<json, attempts, relayStates, manualOverride, pirState, pinLevel,
                   deviceId, authToken, EEPROM, wifiConnected, wifiBegun,
                   cbEvent, now, lastHeartbeat, lastSensorRead>>

\* the for loop of setup() without the digitalWrite of line 36
setupPinNoWrite(pins, i) == pins

\* one iteration of lines 33-37: digitalWrite(RELAY_PINS[i], LOW)
setupPin(pins, i) == [pins EXCEPT ![RELAY_PINS[i]] = LOW]

setup_pins ==
    /\ pc = "setup_pins"
    /\ IF swIdx < NUM_SWITCHES
       THEN /\ pinLevel' = setupPin(pinLevel, swIdx)
            /\ swIdx' = swIdx + 1
            /\ pc' = pc
       ELSE /\ pc' = "loadConfiguration"
            /\ swIdx' = 0
            /\ pinLevel' = pinLevel
    /\ Quiet
    /\ UNCHANGED <<json, attempts, relayStates, manualOverride, pirState,
                   deviceId, authToken, EEPROM, wifiConnected, wifiBegun,
                   cbEvent, now, lastHeartbeat, lastSensorRead>>

\* loadConfiguration without the replace of line 397
loadedDeviceIdWithColons(mem) ==
    LET stored == ReadString(mem, DEVICE_ID_ADDR)
    IN  IF Len(stored) = 0 THEN MacAddress ELSE stored

\* lines 391-399
loadedDeviceId(mem) ==
    LET stored == ReadString(mem, DEVICE_ID_ADDR)
    IN  IF Len(stored) = 0 THEN RemoveChar(MacAddress, Colon) ELSE stored

loadConfiguration ==
    /\ pc = "loadConfiguration"
    /\ deviceId' = loadedDeviceId(EEPROM)
    /\ authToken' = ReadString(EEPROM, AUTH_TOKEN_ADDR)
    /\ pc' = "connectWiFi"
    /\ Quiet
    /\ UNCHANGED <<json, swIdx, attempts, relayStates, manualOverride, pirState, pinLevel,
                   EEPROM, wifiConnected, wifiBegun, cbEvent,
                   now, lastHeartbeat, lastSensorRead>>

\* lines 73-76: WiFi.begin, attempts = 0
connectWiFi ==
    /\ pc = "connectWiFi"
    /\ wifiBegun' = TRUE
    /\ attempts' = 0
    /\ pc' = "connectWiFi_while"
    /\ Quiet
    /\ UNCHANGED <<json, swIdx, relayStates, manualOverride, pirState, pinLevel,
                   deviceId, authToken, EEPROM, wifiConnected, cbEvent,
                   now, lastHeartbeat, lastSensorRead>>

\* the loop of connectWiFi without its attempt limit
wifiKeepWaitingForever(connected, n) == ~connected

\* line 77: the loop condition
wifiKeepWaiting(connected, n) == ~connected /\ n < WIFI_MAX_ATTEMPTS

\* lines 77-81: one evaluation of the loop condition, and the body if it holds
connectWiFi_while ==
    /\ pc = "connectWiFi_while"
    /\ IF wifiKeepWaiting(wifiConnected, attempts)
       THEN /\ attempts' = attempts + 1
            /\ pc' = pc
       ELSE /\ attempts' = attempts
            /\ pc' = "connectWiFi_if"
    /\ Quiet
    /\ UNCHANGED <<json, swIdx, relayStates, manualOverride, pirState, pinLevel,
                   deviceId, authToken, EEPROM, wifiConnected, wifiBegun, cbEvent,
                   now, lastHeartbeat, lastSensorRead>>

\* lines 83-93: return when connected (the local attempts is gone),
\* ESP.restart() otherwise
connectWiFi_if ==
    /\ pc = "connectWiFi_if"
    /\ IF wifiConnected
       THEN /\ pc' = "registerDevice"
            /\ attempts' = 0
            /\ Quiet
            /\ UNCHANGED <<json, swIdx, relayStates, manualOverride, pirState,
                           pinLevel, deviceId, authToken, EEPROM, wifiConnected,
                           wifiBegun, cbEvent, now, lastHeartbeat, lastSensorRead>>
       ELSE Restart

\* lines 385-389 (EEPROM.commit() makes the two writes durable)
saveConfiguration(mem, id, token) ==
    WriteString(WriteString(mem, DEVICE_ID_ADDR, id), AUTH_TOKEN_ADDR, token)

\* the check of line 143 taking every answer of the server for a success
registrationOkAnyAnswer(code) == code > 0

\* line 143
registrationOk(code) == code = 200 \/ code = 201

\* lines 96-162, for the status codes and identifiers the backend may answer
registerDevice(codes, ids) ==
    /\ pc = "registerDevice"
    /\ pc' = "connectWebSocket"
    /\ sampled' = NoSample
    /\ wsEvent' = NoEvent
    /\ wsSent' = <<>>
    /\ IF ~wifiConnected
       THEN /\ httpSent' = <<>>
            /\ UNCHANGED <<deviceId, authToken, EEPROM>>
       ELSE \E code \in codes, id \in ids, token \in ResponseTokens :
            /\ httpSent' = <<[url |-> "/devices/register", mac |-> MacAddress,
                              code |-> code]>>
            /\ IF registrationOk(code)
               THEN /\ deviceId' = id
                    /\ authToken' = token
                    /\ EEPROM' = saveConfiguration(EEPROM, id, token)
               ELSE UNCHANGED <<deviceId, authToken, EEPROM>>
    /\ UNCHANGED <<json, swIdx, attempts, relayStates, manualOverride, pirState, pinLevel,
                   wifiConnected, wifiBegun, cbEvent,
                   now, lastHeartbeat, lastSensorRead>>

\* onEvent keeping the callback that was registered first
onEventKeepFirst(registered, callback) ==
    IF registered = "none" THEN callback ELSE registered

\* WebSocketsClient::onEvent stores the one callback of the client
onEvent(registered, callback) == callback

\* lines 164-182: onEvent(webSocketEvent), then onEvent(the auth lambda)
connectWebSocket ==
    /\ pc = "connectWebSocket"
    /\ cbEvent' = onEvent(onEvent(cbEvent, "webSocketEvent"), "authLambda")
    /\ pc' = "loop_webSocket"
    /\ Quiet
    /\ UNCHANGED <<json, swIdx, attempts, relayStates, manualOverride, pirState, pinLevel,
                   deviceId, authToken, EEPROM, wifiConnected, wifiBegun,
                   now, lastHeartbeat, lastSensorRead>>

----------------------------------------------------------------------------
(* Handlers, as functions of the part of the state they read and write:     *)
(* st.rs relayStates, st.mo manualOverride, st.pir pirState, st.pin the     *)
(* relay pins, st.ws and st.http what the handler has sent so far           *)

Cur == [rs |-> relayStates, mo |-> manualOverride, pir |-> pirState,
        pin |-> pinLevel, ws |-> <<>>, http |-> <<>>]

Apply(st) ==
    /\ relayStates' = st.rs
    /\ manualOverride' = st.mo
    /\ pirState' = st.pir
    /\ pinLevel' = st.pin
    /\ wsSent' = st.ws
    /\ httpSent' = st.http

OnOff(b) == IF b THEN "on" ELSE "off"

\* logActivity without the WiFi check of line 359
logActivityUnchecked(st, switchIndex, action, triggeredBy) ==
    [st EXCEPT !.http = Append(@, [url |-> "/activities",
                                   deviceId |-> deviceId,
                                   switchId |-> SwitchName(switchIndex),
                                   action |-> action,
                                   triggeredBy |-> triggeredBy])]

\* lines 358-383
logActivity(st, switchIndex, action, triggeredBy) ==
    IF ~wifiConnected
    THEN st
    ELSE [st EXCEPT !.http = Append(@, [url |-> "/activities",
                                        deviceId |-> deviceId,
                                        switchId |-> SwitchName(switchIndex),
                                        action |-> action,
                                        triggeredBy |-> triggeredBy])]

\* toggleRelay writing the pin of the neighbouring relay
toggleRelayWrongPin(st, relayIndex, state) ==
    logActivity([st EXCEPT !.rs[relayIndex] = state,
                           !.pin[RELAY_PINS[(relayIndex + 1) % NUM_SWITCHES]] = Level(state)],
                relayIndex, OnOff(state), "remote")

\* lines 229-237
toggleRelay(st, relayIndex, state) ==
    logActivity([st EXCEPT !.rs[relayIndex] = state,
                           !.pin[RELAY_PINS[relayIndex]] = Level(state)],
                relayIndex, OnOff(state), "remote")

\* lines 293-304
sendSwitchStateUpdate(st, switchIndex) ==
    [st EXCEPT !.ws = Append(@, [type |-> "switch_update",
                                 deviceId |-> deviceId,
                                 switchId |-> SwitchName(switchIndex),
                                 state |-> st.rs[switchIndex],
                                 timestamp |-> now])]

\* lines 306-316
sendPIREvent(st, motion) ==
    [st EXCEPT !.ws = Append(@, [type |-> "pir_event",
                                 deviceId |-> deviceId,
                                 motion |-> motion,
                                 timestamp |-> now])]

\* lines 318-341
sendHeartbeat(st) ==
    [st EXCEPT !.ws = Append(@, [type |-> "heartbeat",
                                 deviceId |-> deviceId,
                                 uptime |-> now,
                                 switches |-> st.rs,
                                 pirActive |-> st.pir])]

\* lines 343-356
sendDeviceStatus(st) ==
    [st EXCEPT !.ws = Append(@, [type |-> "device_status",
                                 deviceId |-> deviceId,
                                 status |-> "online"])]

\* String::substring(from)
Substring(s, from) == IF from >= Len(s) THEN <<>> ELSE SubSeq(s, from + 1, Len(s))

IsSpace(c) == c = 32 \/ (c >= 9 /\ c <= 13)
IsDigit(c) == c >= 48 /\ c <= 57

RECURSIVE SkipSpaces(_)
SkipSpaces(s) == IF s # <<>> /\ IsSpace(Head(s)) THEN SkipSpaces(Tail(s)) ELSE s

RECURSIVE DigitsValue(_, _)
DigitsValue(s, acc) ==
    IF s # <<>> /\ IsDigit(Head(s))
    THEN DigitsValue(Tail(s), acc * 10 + (Head(s) - 48))
    ELSE acc

\* String::toInt(), i.e. atol: blanks, an optional sign, then digits
ToInt(s) ==
    LET t == SkipSpaces(s)
    IN  IF t # <<>> /\ Head(t) = 45 THEN 0 - DigitsValue(Tail(t), 0)
        ELSE IF t # <<>> /\ Head(t) = 43 THEN DigitsValue(Tail(t), 0)
        ELSE DigitsValue(t, 0)

\* line 212
switchIndexOf(switchId) == ToInt(Substring(switchId, 2)) - 1

\* lines 203-227
handleWebSocketMessage(st, msg) ==
    IF msg.type = "switch_toggle"
    THEN LET switchIndex == switchIndexOf(msg.switchId)
         IN  IF switchIndex >= 0 /\ switchIndex < NUM_SWITCHES
             THEN sendSwitchStateUpdate(toggleRelay(st, switchIndex, msg.state),
                                        switchIndex)
             ELSE st
    ELSE IF msg.type = "get_status"
    THEN sendDeviceStatus(st)
    ELSE st

\* lines 184-201
webSocketEvent(st, ev) ==
    IF ev.type = "TEXT" THEN handleWebSocketMessage(st, ev.msg) ELSE st

\* lines 170-181: the lambda given to the second onEvent call
authLambda(st, ev) ==
    IF ev.type = "CONNECTED"
    THEN [st EXCEPT !.ws = Append(@, [type |-> "auth",
                                      deviceId |-> deviceId,
                                      token |-> authToken])]
    ELSE st

\* the client library calls the registered callback, if any, from loop()
runCallback(st, ev) ==
    IF ev.type = "none" THEN st
    ELSE IF cbEvent = "webSocketEvent" THEN webSocketEvent(st, ev)
    ELSE IF cbEvent = "authLambda" THEN authLambda(st, ev)
    ELSE st

\* checkManualSwitch toggling on the level instead of the edge
checkManualSwitchOnLevel(st, i, currentState) ==
    LET st1 == [st EXCEPT !.mo[i] = currentState]
    IN  IF currentState
        THEN LET st2 == [st1 EXCEPT !.rs[i] = ~st1.rs[i],
                                   !.pin[RELAY_PINS[i]] = Level(~st1.rs[i])]
             IN  logActivity(sendSwitchStateUpdate(st2, i), i,
                             OnOff(st2.rs[i]), "manual")
        ELSE st1

\* checkManualSwitch without the digitalWrite of line 249
checkManualSwitchNoWrite(st, i, currentState) ==
    IF currentState # st.mo[i]
    THEN LET st1 == [st EXCEPT !.mo[i] = currentState]
         IN  IF currentState
             THEN LET st2 == [st1 EXCEPT !.rs[i] = ~st1.rs[i]]
                  IN  logActivity(sendSwitchStateUpdate(st2, i), i,
                                  OnOff(st2.rs[i]), "manual")
             ELSE st1
    ELSE st

\* lines 241-257: the body of the for loop, for the sampled level of switch i
checkManualSwitch(st, i, currentState) ==
    IF currentState # st.mo[i]
    THEN LET st1 == [st EXCEPT !.mo[i] = currentState]
         IN  IF currentState
             THEN LET st2 == [st1 EXCEPT !.rs[i] = ~st1.rs[i],
                                        !.pin[RELAY_PINS[i]] = Level(~st1.rs[i])]
                  IN  logActivity(sendSwitchStateUpdate(st2, i), i,
                                  OnOff(st2.rs[i]), "manual")
             ELSE st1
    ELSE st

\* lines 274-279
RECURSIVE pirTurnOnLinked(_, _)
pirTurnOnLinked(st, i) ==
    IF i >= NUM_SWITCHES THEN st
    ELSE pirTurnOnLinked(
             IF PIR_LINKED_SWITCHES[i] /\ ~st.rs[i]
             THEN sendSwitchStateUpdate(toggleRelay(st, i, TRUE), i)
             ELSE st,
             i + 1)

\* pirSample reporting every sample, changed or not
pirSampleEveryLevel(st, currentPirState) ==
    LET st1 == [st EXCEPT !.pir = currentPirState]
    IN  IF st1.pir
        THEN sendPIREvent(pirTurnOnLinked(st1, 0), TRUE)
        ELSE sendPIREvent(st1, FALSE)

\* pirSample switching the linked relays off when the motion stops
pirSampleOffOnStop(st, currentPirState) ==
    IF currentPirState # st.pir
    THEN LET st1 == [st EXCEPT !.pir = currentPirState]
         IN  IF st1.pir
             THEN sendPIREvent(pirTurnOnLinked(st1, 0), TRUE)
             ELSE sendPIREvent(
                      [st1 EXCEPT
                          !.rs = [i \in Switches |->
                                     st1.rs[i] /\ ~PIR_LINKED_SWITCHES[i]],
                          !.pin = [p \in RelayPinSet |->
                                     IF \E i \in Switches :
                                           RELAY_PINS[i] = p /\ PIR_LINKED_SWITCHES[i]
                                     THEN LOW ELSE st1.pin[p]]],
                      FALSE)
    ELSE st

\* pirSample announcing the motion before it switches the linked relays
pirSampleEventFirst(st, currentPirState) ==
    IF currentPirState # st.pir
    THEN LET st1 == [st EXCEPT !.pir = currentPirState]
         IN  IF st1.pir
             THEN pirTurnOnLinked(sendPIREvent(st1, TRUE), 0)
             ELSE sendPIREvent(st1, FALSE)
    ELSE st

\* lines 265-287, for the sampled level of the PIR pin
pirSample(st, currentPirState) ==
    IF currentPirState # st.pir
    THEN LET st1 == [st EXCEPT !.pir = currentPirState]
         IN  IF st1.pir
             THEN sendPIREvent(pirTurnOnLinked(st1, 0), TRUE)
             ELSE sendPIREvent(st1, FALSE)
    ELSE st

\* line 264
sensorDue(t, since) == U32Greater(Elapsed(t, since), U32(SENSOR_INTERVAL))

\* the test of line 64 written as millis() > lastHeartbeat + 30000
heartbeatDueNoWrap(t, since) == U32Greater(t, U32Add(since, U32(HEARTBEAT_INTERVAL)))

\* line 64
heartbeatDue(t, since) == U32Greater(Elapsed(t, since), U32(HEARTBEAT_INTERVAL))

----------------------------------------------------------------------------
(* What the server may send *)

InboundSwitchIds ==
    {SwitchName(i) : i \in Switches} \cup
    {<<115, 119, 48>>, <<115, 119, 53>>, <<115, 119, 120>>, <<>>}

Text(type, switchId, state) ==
    [type |-> "TEXT", msg |-> [type |-> type, switchId |-> switchId, state |-> state]]

InboundEvents ==
    {[type |-> "CONNECTED"], [type |-> "DISCONNECTED"]} \cup
    {Text("switch_toggle", id, s) : id \in InboundSwitchIds, s \in BOOLEAN} \cup
    {Text(t, <<>>, FALSE) : t \in {"get_status", "ota_update", "unknown"}}

\* the time one iteration of loop() takes, delay(100) included
LoopDurations == {<<HalfModulus \div 2, 0>>}

----------------------------------------------------------------------------
(* loop() *)

\* line 55: webSocket.loop() delivers at most one event to the callback
loop_webSocket(events) ==
    /\ pc = "loop_webSocket"
    /\ \E ev \in events \cup {NoEvent} :
          /\ wsEvent' = ev
          /\ Apply(runCallback(Cur, ev))
    /\ sampled' = NoSample
    /\ pc' = "checkManualSwitches"
    /\ swIdx' = 0
    /\ UNCHANGED <<json, attempts, deviceId, authToken, EEPROM, wifiConnected, wifiBegun,
                   cbEvent, now, lastHeartbeat, lastSensorRead>>

\* lines 239-259, one iteration of the for loop per step; pressed says
\* whether a switch may be found pressed
checkManualSwitches(pressed) ==
    /\ pc = "checkManualSwitches"
    /\ swIdx < NUM_SWITCHES
    /\ \E currentState \in pressed :
          /\ Apply(checkManualSwitch(Cur, swIdx, currentState))
          /\ sampled' = <<currentState>>
    /\ wsEvent' = NoEvent
    /\ IF swIdx + 1 < NUM_SWITCHES
       THEN pc' = pc /\ swIdx' = swIdx + 1
       ELSE pc' = "readPIRSensor" /\ swIdx' = 0
    /\ UNCHANGED <<json, attempts, deviceId, authToken, EEPROM, wifiConnected, wifiBegun,
                   cbEvent, now, lastHeartbeat, lastSensorRead>>

\* lines 261-291; motion says what digitalRead(PIR_SENSOR_PIN) may return
readPIRSensor(motion) ==
    /\ pc = "readPIRSensor"
    /\ IF HAS_PIR_SENSOR /\ sensorDue(now, lastSensorRead)
       THEN /\ \E currentPirState \in motion :
                  /\ Apply(pirSample(Cur, currentPirState))
                  /\ sampled' = <<currentPirState>>
            /\ lastSensorRead' = now
       ELSE /\ Apply(Cur)
            /\ sampled' = NoSample
            /\ lastSensorRead' = lastSensorRead
    /\ wsEvent' = NoEvent
    /\ pc' = "loop_heartbeat"
    /\ UNCHANGED <<json, swIdx, attempts, deviceId, authToken, EEPROM, wifiConnected,
                   wifiBegun, cbEvent, now, lastHeartbeat>>

\* loop_heartbeat if sendTXT let the client deliver an event to the callback
loop_heartbeatReentrant(durations) ==
    /\ pc = "loop_heartbeat"
    /\ Apply(runCallback(sendHeartbeat(Cur), [type |-> "CONNECTED"]))
    /\ wsEvent' = [type |-> "CONNECTED"]
    /\ lastHeartbeat' = now
    /\ \E d \in durations : now' = U32Add(now, d)
    /\ sampled' = NoSample
    /\ pc' = "loop_webSocket"
    /\ UNCHANGED <<json, swIdx, attempts, deviceId, authToken, EEPROM, wifiConnected,
                   wifiBegun, cbEvent, lastSensorRead>>

\* lines 63-69: the heartbeat, then delay(100); durations says how long the
\* iteration of loop() that ends here may have taken
loop_heartbeat(durations) ==
    /\ pc = "loop_heartbeat"
    /\ IF heartbeatDue(now, lastHeartbeat)
       THEN /\ Apply(sendHeartbeat(Cur))
            /\ lastHeartbeat' = now
       ELSE /\ Apply(Cur)
            /\ lastHeartbeat' = lastHeartbeat
    /\ \E d \in durations : now' = U32Add(now, d)
    /\ sampled' = NoSample
    /\ wsEvent' = NoEvent
    /\ pc' = "loop_webSocket"
    /\ UNCHANGED <<json, swIdx, attempts, deviceId, authToken, EEPROM, wifiConnected,
                   wifiBegun, cbEvent, lastSensorRead>>

----------------------------------------------------------------------------
(* Environment *)

\* the access point comes and goes once WiFi.begin() was called
WiFiChange ==
    /\ wifiBegun
    /\ wifiConnected' = ~wifiConnected
    /\ UNCHANGED <<json, pc, swIdx, attempts, relayStates, manualOverride, pirState,
                   pinLevel, deviceId, authToken, EEPROM, wifiBegun, cbEvent,
                   sampled, wsEvent, wsSent, httpSent, now, lastHeartbeat,
                   lastSensorRead>>

\* the supply is switched off and on again
PowerCycle == pc # "setup" /\ Restart

\* setup(), the same under every environment
SetupSteps ==
    \/ setup
    \/ setup_pins
    \/ loadConfiguration
    \/ connectWiFi
    \/ connectWiFi_while
    \/ connectWiFi_if
    \/ connectWebSocket

----------------------------------------------------------------------------
(* The device in its environment *)

Next ==
    \/ SetupSteps
    \/ registerDevice(HttpCodes, ResponseIds)
    \/ loop_webSocket(InboundEvents)
    \/ checkManualSwitches(BOOLEAN)
    \/ readPIRSensor(BOOLEAN)
    \/ loop_heartbeat(LoopDurations)
    \/ WiFiChange
    \/ PowerCycle

Spec == Init /\ [][Next]_vars

----------------------------------------------------------------------------
(* The device with its clock followed closely: loop() iterations of one     *)
(* second and of twenty-nine seconds, for the first Horizon milliseconds     *)
(* after boot and from WrapLead milliseconds before millis() wraps around    *)
(* until Horizon milliseconds after; one long iteration leads from the      *)
(* first window to the second. No switch is pressed, no event delivered.     *)

Horizon == 32000
WrapLead == 15000

\* 2^32 - WrapLead
LateStart == U32Sub(U32(0), U32(WrapLead))

ClockSteps == {U32(1000), U32(29001)}

ClockDurations(t) ==
    IF (t[1] = 0 /\ t[2] <= Horizon) \/ ~U32Greater(LateStart, t)
    THEN ClockSteps
    ELSE {U32Sub(LateStart, t)}

ClockNext ==
    \/ SetupSteps
    \/ registerDevice({404}, {ShortId})
    \/ loop_webSocket({})
    \/ checkManualSwitches({FALSE})
    \/ readPIRSensor(BOOLEAN)
    \/ loop_heartbeat(ClockDurations(now))
    \/ WiFiChange

ClockSpec == Init /\ [][ClockNext]_vars

----------------------------------------------------------------------------
(* toggleRelay() called with every argument, from every state of the relays *)
(* wsEvent holds the call: swIdx is relayIndex, wsEvent.state is state      *)

ToggleCall(state) == [type |-> "toggleRelay", state |-> state]

ToggleInit ==
    /\ pc = "toggleRelay"
    /\ swIdx = 0
    /\ attempts = 0
    /\ relayStates = AllFalse
    /\ manualOverride \in [Switches -> BOOLEAN]
    /\ pirState \in BOOLEAN
    /\ pinLevel = [p \in RelayPinSet |-> LOW]
    /\ deviceId = loadedDeviceId(ErasedEEPROM)
    /\ authToken = <<>>
    /\ EEPROM = ErasedEEPROM
    /\ wifiConnected \in BOOLEAN
    /\ wifiBegun = TRUE
    /\ cbEvent = "authLambda"
    /\ sampled = NoSample
    /\ wsEvent = NoEvent
    /\ wsSent = <<>>
    /\ httpSent = <<>>
    /\ now = U32(0)
    /\ lastHeartbeat = U32(0)
    /\ lastSensorRead = U32(0)
    /\ json = <<>>

callToggleRelay ==
    /\ pc = "toggleRelay"
    /\ \E relayIndex \in Switches, state \in BOOLEAN :
          /\ Apply(toggleRelay(Cur, relayIndex, state))
          /\ swIdx' = relayIndex
          /\ wsEvent' = ToggleCall(state)
    /\ sampled' = NoSample
    /\ UNCHANGED <<json, pc, attempts, deviceId, authToken, EEPROM, wifiConnected,
                   wifiBegun, cbEvent, now, lastHeartbeat, lastSensorRead>>

ToggleNext == callToggleRelay \/ WiFiChange

ToggleSpec == ToggleInit /\ [][ToggleNext]_vars

----------------------------------------------------------------------------
(* handleWebSocketMessage() called with every message, from every state of  *)
(* the relays; wsEvent holds the message                                     *)

\* "sw1x", "sw 2", "sw+3", "sw-1", "ab4" and "null", which is what the JSON
\* library gives for a switchId that is missing
MalformedSwitchIds ==
    {<<115, 119, 49, 120>>, <<115, 119, 32, 50>>, <<115, 119, 43, 51>>,
     <<115, 119, 45, 49>>, <<97, 98, 52>>, <<110, 117, 108, 108>>}

HandlerMessages ==
    {Text("switch_toggle", id, s) :
        id \in InboundSwitchIds \cup MalformedSwitchIds, s \in BOOLEAN} \cup
    {Text(t, <<>>, FALSE) : t \in {"get_status", "ota_update", "unknown"}}

MessageInit ==
    /\ pc = "handleWebSocketMessage"
    /\ swIdx = 0
    /\ attempts = 0
    /\ relayStates = AllFalse
    /\ manualOverride = AllFalse
    /\ pirState = FALSE
    /\ pinLevel = [p \in RelayPinSet |-> LOW]
    /\ deviceId = loadedDeviceId(ErasedEEPROM)
    /\ authToken = <<>>
    /\ EEPROM = ErasedEEPROM
    /\ wifiConnected \in BOOLEAN
    /\ wifiBegun = TRUE
    /\ cbEvent = "authLambda"
    /\ sampled = NoSample
    /\ wsEvent = NoEvent
    /\ wsSent = <<>>
    /\ httpSent = <<>>
    /\ now = U32(0)
    /\ lastHeartbeat = U32(0)
    /\ lastSensorRead = U32(0)
    /\ json = <<>>

callHandleWebSocketMessage ==
    /\ pc = "handleWebSocketMessage"
    /\ \E ev \in HandlerMessages :
          /\ Apply(webSocketEvent(Cur, ev))
          /\ wsEvent' = ev
    /\ sampled' = NoSample
    /\ UNCHANGED <<json, pc, swIdx, attempts, deviceId, authToken, EEPROM, wifiConnected,
                   wifiBegun, cbEvent, now, lastHeartbeat, lastSensorRead>>

MessageNext == callHandleWebSocketMessage \/ WiFiChange

MessageSpec == MessageInit /\ [][MessageNext]_vars

----------------------------------------------------------------------------
(* firmware_common.h (aqua-guard-sense): fwInjectProtocolVersion(), a       *)
(* function of its String argument alone, called with every short string     *)

FW_PROTOCOL_VERSION == 1

ClosingBrace == 125
Comma == 44

\* String::endsWith for a one-character suffix
EndsWith(str, c) == Len(str) > 0 /\ str[Len(str)] = c

\* String::remove(index): the string loses everything from index on
Remove(str, index) == IF index >= Len(str) THEN str ELSE SubSeq(str, 1, index)

\* String::indexOf(c): the position of the first c, counted from 0, or -1
IndexOf(str, c) ==
    LET hits == {k \in 1..Len(str) : str[k] = c}
    IN  IF hits = {} THEN -1
        ELSE (CHOOSE k \in hits : \A h \in hits : k <= h) - 1

\* String(int) for a number that is not negative
RECURSIVE DecimalString(_)
DecimalString(n) ==
    IF n < 10 THEN <<48 + n>> ELSE Append(DecimalString(n \div 10), 48 + (n % 10))

\* "\"protocol_version\":"
ProtocolVersionKey ==
    <<34, 112, 114, 111, 116, 111, 99, 111, 108, 95, 118, 101, 114, 115, 105, 111, 110, 34, 58>>

\* fwInjectProtocolVersion putting the comma into every object, empty or not
fwInjectAlwaysComma(str) ==
    IF EndsWith(str, ClosingBrace)
    THEN Append(Remove(str, Len(str) - 1), Comma)
            \o ProtocolVersionKey \o DecimalString(FW_PROTOCOL_VERSION)
            \o <<ClosingBrace>>
    ELSE str

\* lines 48-55
fwInjectProtocolVersion(str) ==
    IF EndsWith(str, ClosingBrace)
    THEN LET removed == Remove(str, Len(str) - 1)
             separated == IF IndexOf(removed, Colon) # -1
                          THEN Append(removed, Comma)
                          ELSE removed
         IN  separated \o ProtocolVersionKey \o DecimalString(FW_PROTOCOL_VERSION)
                \o <<ClosingBrace>>
    ELSE str

\* the longest string the function is called with
MaxJsonLen == 3

\* the characters of the strings: { } : , a
JsonChars == {123, ClosingBrace, Colon, Comma, 97}

JsonInputs == UNION {[1..n -> JsonChars] : n \in 0..MaxJsonLen}

InjectInit ==
    /\ pc = "fwInjectProtocolVersion"
    /\ json \in JsonInputs
    /\ swIdx = 0
    /\ attempts = 0
    /\ relayStates = AllFalse
    /\ manualOverride = AllFalse
    /\ pirState = FALSE
    /\ pinLevel = [p \in RelayPinSet |-> FLOATING]
    /\ deviceId = <<>>
    /\ authToken = <<>>
    /\ EEPROM = ErasedEEPROM
    /\ wifiConnected = FALSE
    /\ wifiBegun = FALSE
    /\ cbEvent = "none"
    /\ sampled = NoSample
    /\ wsEvent = NoEvent
    /\ wsSent = <<>>
    /\ httpSent = <<>>
    /\ now = U32(0)
    /\ lastHeartbeat = U32(0)
    /\ lastSensorRead = U32(0)

callFwInjectProtocolVersion ==
    /\ pc = "fwInjectProtocolVersion"
    /\ json' = fwInjectProtocolVersion(json)
    /\ pc' = "injected"
    /\ UNCHANGED <<swIdx, attempts, relayStates, manualOverride, pirState, pinLevel,
                   deviceId, authToken, EEPROM, wifiConnected, wifiBegun, cbEvent,
                   sampled, wsEvent, wsSent, httpSent, now, lastHeartbeat,
                   lastSensorRead>>

InjectNext == callFwInjectProtocolVersion

InjectSpec == InjectInit /\ [][InjectNext]_vars

----------------------------------------------------------------------------
(* Properties *)

LoopPcs == {"loop_webSocket", "checkManualSwitches", "readPIRSensor", "loop_heartbeat"}
BeforePinsPcs == {"setup", "setup_pins"}

\* a step of the environment's WiFiChange, as opposed to a step of the program
IsWiFiChange == pc' = pc /\ wifiConnected' # wifiConnected

PinMirrors(i) == pinLevel[RELAY_PINS[i]] = Level(relayStates[i])

GeneratedId == RemoveChar(MacAddress, Colon)

\* C1: toggleRelay(i, s) leaves relayStates[i] = s and pin RELAY_PINS[i] HIGH
\* exactly when s, and leaves every other relay state and relay pin, the
\* manualOverride flags and pirState as they were.
C1_ToggleRelayFrame ==
    [][(pc = "toggleRelay" /\ ~IsWiFiChange) =>
        LET i == swIdx'
            s == wsEvent'.state
        IN  /\ relayStates'[i] = s
            /\ pinLevel'[RELAY_PINS[i]] = (IF s THEN HIGH ELSE LOW)
            /\ \A j \in Switches \ {i} :
                  /\ relayStates'[j] = relayStates[j]
                  /\ pinLevel'[RELAY_PINS[j]] = pinLevel[RELAY_PINS[j]]
            /\ manualOverride' = manualOverride
            /\ pirState' = pirState]_vars

\* toggleRelay(3, false) was called with relay 0 on, switch 1 held and motion seen
C1_Witness ==
    /\ pc = "toggleRelay"
    /\ wsEvent = ToggleCall(FALSE)
    /\ swIdx = 3
    /\ relayStates = [i \in Switches |-> i = 0]
    /\ pinLevel[RELAY_PINS[0]] = HIGH
    /\ manualOverride[1]
    /\ pirState

\* C2: once setup() has initialised the pins, the level of RELAY_PINS[i] is
\* HIGH if and only if relayStates[i] is true, for every i.
C2_PinMirrorsRelayState ==
    pc \notin BeforePinsPcs => \A i \in Switches : PinMirrors(i)

\* relays switched by motion (0) and by hand (2), another one left off
C2_Witness ==
    /\ pc \in LoopPcs
    /\ pirState /\ relayStates[0] /\ pinLevel[RELAY_PINS[0]] = HIGH
    /\ manualOverride[2] /\ relayStates[2] /\ pinLevel[RELAY_PINS[2]] = HIGH
    /\ ~relayStates[3] /\ pinLevel[RELAY_PINS[3]] = LOW

\* C3 as claimed: the identifier generated from the MAC address is persisted,
\* so that the storage holds it once setup() has run with it.
C3_GeneratedIdPersisted ==
    (pc \in LoopPcs /\ deviceId = GeneratedId)
        => ReadString(EEPROM, DEVICE_ID_ADDR) = GeneratedId

\* C3 as amended: with no identifier in the storage, loadConfiguration() sets
\* deviceId to the MAC address without its colons and writes nothing; the
\* storage changes only in a registration answered 200 or 201.
C3_GeneratedIdNotPersisted ==
    [][/\ (pc = "loadConfiguration" /\ pc' = "connectWiFi"
             /\ Len(ReadString(EEPROM, DEVICE_ID_ADDR)) = 0)
          => (deviceId' = GeneratedId /\ EEPROM' = EEPROM)
       /\ (EEPROM' # EEPROM)
          => (/\ pc = "registerDevice"
              /\ Len(httpSent') = 1
              /\ httpSent'[1].code \in {200, 201})]_vars

\* a boot that found the storage empty has generated the identifier again
C3_Witness ==
    /\ pc = "connectWiFi"
    /\ EEPROM = ErasedEEPROM
    /\ deviceId = <<50, 52, 54, 70, 50, 56, 65, 49, 66, 50, 67, 51>>

\* C4: a switch_toggle message for swN with state s, delivered by
\* webSocket.loop(), leaves relayStates[N-1] = s and sends a switch_update
\* for swN carrying s.
C4_RemoteToggleApplied ==
    [][(pc = "loop_webSocket" /\ pc' = "checkManualSwitches"
          /\ wsEvent'.type = "TEXT" /\ wsEvent'.msg.type = "switch_toggle")
        => \A i \in Switches :
              wsEvent'.msg.switchId = SwitchName(i)
                 => /\ relayStates'[i] = wsEvent'.msg.state
                    /\ \E k \in 1..Len(wsSent') :
                          /\ wsSent'[k].type = "switch_update"
                          /\ wsSent'[k].switchId = SwitchName(i)
                          /\ wsSent'[k].state = wsEvent'.msg.state]_vars

SetupAfterPinsPcs ==
    {"loadConfiguration", "connectWiFi", "connectWiFi_while", "connectWiFi_if",
     "registerDevice", "connectWebSocket"}

\* C5: in every boot, when the pin loop of setup() is done the relay states
\* are all false, the relay pins all LOW and the manualOverride flags all
\* false, and nothing was done yet on WiFi, HTTP or the WebSocket; they stay
\* so for the rest of setup().
C5_DefaultsAfterRestart ==
    /\ pc \in SetupAfterPinsPcs =>
          /\ relayStates = AllFalse
          /\ manualOverride = AllFalse
          /\ \A i \in Switches : pinLevel[RELAY_PINS[i]] = LOW
    /\ pc \in {"loadConfiguration", "connectWiFi"} =>
          /\ ~wifiBegun /\ ~wifiConnected
          /\ httpSent = <<>> /\ wsSent = <<>>
          /\ cbEvent = "none"

\* a later boot (the storage was written by an earlier one), before WiFi.begin
C5_Witness ==
    /\ pc = "connectWiFi"
    /\ EEPROM # ErasedEEPROM
    /\ \A i \in Switches : pinLevel[RELAY_PINS[i]] = LOW

\* C6: connectWiFi() passes through its waiting loop at most 20 times and
\* then either returns with WiFi connected or restarts the device;
\* registerDevice() and connectWebSocket() are entered only after connectWiFi()
\* found WiFi connected, and WiFi.begin() is called once per boot.
C6_ConnectWiFiBounded ==
    [][/\ attempts' <= WIFI_MAX_ATTEMPTS
       /\ (pc = "connectWiFi_while" /\ pc' = pc /\ ~IsWiFiChange)
             => attempts' = attempts + 1
       /\ (pc = "connectWiFi_while" /\ pc' # pc)
             => pc' \in {"connectWiFi_if", "setup"}
       /\ (pc = "connectWiFi_if" /\ pc' # pc)
             => /\ pc' \in {"registerDevice", "setup"}
                /\ ~wifiConnected => pc' = "setup"
       /\ (pc' = "registerDevice" /\ pc # pc')
             => (pc = "connectWiFi_if" /\ wifiConnected)
       /\ (pc' = "connectWebSocket" /\ pc # pc') => pc = "registerDevice"
       /\ (pc' = "connectWiFi_while" /\ pc # pc') => pc = "connectWiFi"
       /\ (pc' = "connectWiFi" /\ pc # pc') => pc = "loadConfiguration"]_vars

\* the twentieth wait is over and WiFi is still not connected
C6_Witness ==
    /\ pc = "connectWiFi_if"
    /\ attempts = WIFI_MAX_ATTEMPTS
    /\ ~wifiConnected

\* C7: a step of the program taken with WiFi disconnected issues no HTTP
\* request, and a manual press or a PIR activation changes the relay and its
\* pin whatever the WiFi status is.
C7_LogSkippedRelayChanged ==
    [][/\ (~wifiConnected /\ ~wifiConnected') => httpSent' = <<>>
       /\ (pc = "checkManualSwitches" /\ pc' # "setup" /\ swIdx' # swIdx
             /\ sampled' = <<TRUE>> /\ ~manualOverride[swIdx])
             => /\ relayStates'[swIdx] = ~relayStates[swIdx]
                /\ pinLevel'[RELAY_PINS[swIdx]] = Level(~relayStates[swIdx])
       /\ (pc = "readPIRSensor" /\ pc' = "loop_heartbeat"
             /\ sampled' = <<TRUE>> /\ ~pirState)
             => \A i \in Switches :
                   PIR_LINKED_SWITCHES[i]
                      => (relayStates'[i] /\ pinLevel'[RELAY_PINS[i]] = HIGH)]_vars

\* switch 1 was pressed with WiFi down: relay 1 is on, the update was sent on
\* the WebSocket, nothing was posted
C7_Witness ==
    /\ pc = "checkManualSwitches"
    /\ swIdx = 2
    /\ sampled = <<TRUE>>
    /\ ~wifiConnected
    /\ httpSent = <<>>
    /\ Len(wsSent) = 1
    /\ wsSent[1].type = "switch_update"
    /\ relayStates[1]
    /\ pinLevel[RELAY_PINS[1]] = HIGH

\* C8: after a successful registration has saved them, what loadConfiguration()
\* reads back from the storage in the next boot is exactly the deviceId and
\* the authToken that were saved.
C8_SaveLoadRoundTrip ==
    (/\ pc = "connectWebSocket"
     /\ Len(httpSent) = 1
     /\ httpSent[1].code \in {200, 201})
        => /\ loadedDeviceId(EEPROM) = deviceId
           /\ ReadString(EEPROM, AUTH_TOKEN_ADDR) = authToken

LoopSuccessor(p) ==
    CASE p = "loop_webSocket" -> "checkManualSwitches"
      [] p = "checkManualSwitches" -> "readPIRSensor"
      [] p = "readPIRSensor" -> "loop_heartbeat"
      [] p = "loop_heartbeat" -> "loop_webSocket"

\* C9: the WebSocket callback runs only in the webSocket.loop() step, before
\* checkManualSwitches() starts; relayStates, manualOverride and pirState change
\* only in the step of the one procedure that writes them, the procedures of
\* loop() follow each other in program order, and a heartbeat carries the
\* relay states and the motion flag as they are.
C9_SingleThreadOfControl ==
    [][/\ (wsEvent' # NoEvent /\ wsEvent' # wsEvent)
             => (pc = "loop_webSocket" /\ pc' = "checkManualSwitches" /\ swIdx' = 0)
       /\ (relayStates' # relayStates /\ pc' # "setup")
             => pc \in {"loop_webSocket", "checkManualSwitches", "readPIRSensor"}
       /\ (manualOverride' # manualOverride /\ pc' # "setup")
             => pc = "checkManualSwitches"
       /\ (pirState' # pirState /\ pc' # "setup") => pc = "readPIRSensor"
       /\ (pc \in LoopPcs /\ pc' # pc /\ pc' # "setup") => pc' = LoopSuccessor(pc)
       /\ (pc = "checkManualSwitches" /\ pc' = pc /\ swIdx' # swIdx)
             => swIdx' = swIdx + 1
       /\ (pc = "checkManualSwitches" /\ pc' = "readPIRSensor")
             => swIdx = NUM_SWITCHES - 1
       /\ (pc = "loop_heartbeat" /\ pc' = "loop_webSocket" /\ wsSent' # <<>>)
             => /\ Len(wsSent') = 1
                /\ wsSent'[1].type = "heartbeat"
                /\ wsSent'[1].switches = relayStates
                /\ wsSent'[1].pirActive = pirState]_vars

\* checkManualSwitches() is half way: switches 0 and 1 were found pressed and
\* their relays switched, switches 2 and 3 are still to be read
C9_Witness ==
    /\ pc = "checkManualSwitches"
    /\ swIdx = 2
    /\ manualOverride[0] /\ relayStates[0]
    /\ manualOverride[1] /\ relayStates[1]
    /\ Len(wsSent) = 1

\* C10: in one iteration of checkManualSwitches() for switch i, a sample
\* pressed after released flips relayStates[i] once and sends one
\* switch_update for it, a sample released after pressed changes only
\* manualOverride[i], an unchanged sample changes nothing, and nothing of
\* another switch changes.
C10_ManualSwitchEdge ==
    [][(pc = "checkManualSwitches" /\ pc' # "setup" /\ swIdx' # swIdx) =>
        LET i == swIdx
        IN  /\ \A j \in Switches \ {i} :
                  /\ relayStates'[j] = relayStates[j]
                  /\ manualOverride'[j] = manualOverride[j]
                  /\ pinLevel'[RELAY_PINS[j]] = pinLevel[RELAY_PINS[j]]
            /\ pirState' = pirState
            /\ sampled' = <<manualOverride'[i]>>
            /\ IF sampled' = <<TRUE>> /\ ~manualOverride[i]
               THEN /\ relayStates'[i] = ~relayStates[i]
                    /\ Len(wsSent') = 1
                    /\ wsSent'[1].type = "switch_update"
                    /\ wsSent'[1].switchId = SwitchName(i)
                    /\ wsSent'[1].state = relayStates'[i]
               ELSE /\ relayStates'[i] = relayStates[i]
                    /\ pinLevel'[RELAY_PINS[i]] = pinLevel[RELAY_PINS[i]]
                    /\ wsSent' = <<>>
                    /\ httpSent' = <<>>]_vars

\* switch 1 is held: it was found pressed again, its relay stays as the first
\* press left it and nothing was sent
C10_Witness ==
    /\ pc = "checkManualSwitches"
    /\ swIdx = 2
    /\ sampled = <<TRUE>>
    /\ manualOverride[1]
    /\ relayStates[1]
    /\ wsSent = <<>>

\* the relays a rising edge of the PIR sensor switches on
PirTurnedOn == {i \in Switches : PIR_LINKED_SWITCHES[i] /\ ~relayStates[i]}

\* C11: when readPIRSensor() samples motion with pirState false, every
\* PIR-linked relay that is off is switched on (state and pin) and a
\* switch_update is sent for it, every other relay and pin stays as it was,
\* and one pir_event with motion = true is sent after all the switch_update
\* messages.
C11_PirRisingEdge ==
    [][(pc = "readPIRSensor" /\ pc' = "loop_heartbeat"
          /\ sampled' = <<TRUE>> /\ ~pirState) =>
        LET n == Len(wsSent')
        IN  /\ pirState'
            /\ \A i \in Switches :
                  IF i \in PirTurnedOn
                  THEN /\ relayStates'[i]
                       /\ pinLevel'[RELAY_PINS[i]] = HIGH
                       /\ \E k \in 1..(n - 1) :
                             /\ wsSent'[k].type = "switch_update"
                             /\ wsSent'[k].switchId = SwitchName(i)
                             /\ wsSent'[k].state = TRUE
                  ELSE /\ relayStates'[i] = relayStates[i]
                       /\ pinLevel'[RELAY_PINS[i]] = pinLevel[RELAY_PINS[i]]
            /\ n = Cardinality(PirTurnedOn) + 1
            /\ wsSent'[n].type = "pir_event"
            /\ wsSent'[n].motion = TRUE
            /\ \A k \in 1..(n - 1) : wsSent'[k].type = "switch_update"]_vars

\* motion was sampled with the linked relay 0 off and relay 1 on by hand:
\* relay 0 is on, its update went out before the pir_event, relay 1 stayed on
\* and relay 2 off
C11_Witness ==
    /\ pc = "loop_heartbeat"
    /\ sampled = <<TRUE>>
    /\ pirState
    /\ relayStates[0] /\ relayStates[1] /\ ~relayStates[2]
    /\ Len(wsSent) = 2
    /\ wsSent[1].type = "switch_update"
    /\ wsSent[1].switchId = SwitchName(0)
    /\ wsSent[2].type = "pir_event"

\* C13: when the registration POST is answered with a status other than 200
\* and 201, deviceId and authToken stay what loadConfiguration() made them,
\* the storage is not written and setup() goes on to connectWebSocket()
\* without a restart; when it is answered 200 or 201, deviceId and authToken
\* become the values of the response and saveConfiguration() stores them;
\* after loadConfiguration() nothing else replaces deviceId or authToken.
C13_RegistrationFailureKeepsConfig ==
    [][/\ (pc = "registerDevice" /\ Len(httpSent') = 1) =>
             /\ pc' = "connectWebSocket"
             /\ IF httpSent'[1].code \in {200, 201}
                THEN /\ deviceId' \in ResponseIds
                     /\ authToken' \in ResponseTokens
                     /\ EEPROM' = saveConfiguration(EEPROM, deviceId', authToken')
                ELSE /\ deviceId' = deviceId
                     /\ deviceId' = loadedDeviceId(EEPROM)
                     /\ authToken' = authToken
                     /\ authToken' = ReadString(EEPROM, AUTH_TOKEN_ADDR)
                     /\ EEPROM' = EEPROM
                     /\ relayStates' = relayStates
                     /\ wifiBegun' = wifiBegun
       /\ ((deviceId' # deviceId \/ authToken' # authToken) /\ pc' # "setup")
             => \/ pc = "loadConfiguration"
                \/ /\ pc = "registerDevice"
                   /\ Len(httpSent') = 1
                   /\ httpSent'[1].code \in {200, 201}]_vars

\* a later boot was refused with 404: setup() is at connectWebSocket() with
\* the identifier and the token of the storage, which the first boot saved
C13_Witness ==
    /\ pc = "connectWebSocket"
    /\ Len(httpSent) = 1
    /\ httpSent[1].code = 404
    /\ deviceId = ShortId
    /\ authToken = Repeat(116, MaxTokenLen)
    /\ ReadString(EEPROM, DEVICE_ID_ADDR) = ShortId

\* C14: the webSocket.loop() step that delivers a CONNECTED event sends
\* exactly one message, an auth message carrying the current deviceId and
\* authToken, so that nothing is sent on the connection before it; this is so
\* for the first CONNECTED event and for every later one, and an auth message
\* is sent in no other step.
C14_AuthOnConnected ==
    [][/\ (pc = "loop_webSocket" /\ pc' = "checkManualSwitches"
             /\ wsEvent'.type = "CONNECTED")
          => wsSent' = <<[type |-> "auth", deviceId |-> deviceId,
                          token |-> authToken]>>
       /\ (~IsWiFiChange /\ \E k \in 1..Len(wsSent') : wsSent'[k].type = "auth")
          => (pc = "loop_webSocket" /\ wsEvent'.type = "CONNECTED")]_vars

\* a connection made in a later iteration of loop(), after a press switched
\* relay 0 on: the auth message with the registered identifier is all that
\* was sent
C14_Witness ==
    /\ pc = "checkManualSwitches"
    /\ swIdx = 0
    /\ wsEvent = [type |-> "CONNECTED"]
    /\ relayStates[0]
    /\ now # U32(0)
    /\ wsSent = <<[type |-> "auth", deviceId |-> ShortId,
                   token |-> Repeat(116, MaxTokenLen)]>>

\* a step in which some relay goes from on to off
RelayTurnedOff(i) == relayStates[i] /\ ~relayStates'[i]

\* C16: readPIRSensor() never switches a relay off: a sampled falling edge
\* sends one pir_event with motion = false and changes no relay state and no
\* pin, a sample without motion or no sample at all changes nothing of the
\* relays, and neither does the passing of more than PIR_TIMEOUT seconds in
\* loop(); within a boot a relay goes from on to off only in the step of a
\* manual press of its switch or of a delivered switch_toggle message.
C16_PirNeverTurnsOff ==
    [][/\ (pc = "readPIRSensor" /\ pc' = "loop_heartbeat") =>
             /\ \A i \in Switches : ~RelayTurnedOff(i)
             /\ sampled' # <<TRUE>> =>
                   (relayStates' = relayStates /\ pinLevel' = pinLevel)
             /\ (sampled' = <<FALSE>> /\ pirState) =>
                   /\ ~pirState'
                   /\ Len(wsSent') = 1
                   /\ wsSent'[1].type = "pir_event"
                   /\ wsSent'[1].motion = FALSE
       /\ (pc = "loop_heartbeat" /\ pc' = "loop_webSocket"
             /\ U32Greater(Elapsed(now', now), U32(PIR_TIMEOUT * 1000))) =>
             (relayStates' = relayStates /\ pinLevel' = pinLevel)
       /\ \A i \in Switches :
             (RelayTurnedOff(i) /\ pc' # "setup") =>
                \/ /\ pc = "checkManualSwitches"
                   /\ swIdx = i
                   /\ sampled' = <<TRUE>>
                \/ /\ pc = "loop_webSocket"
                   /\ wsEvent'.type = "TEXT"
                   /\ wsEvent'.msg.type = "switch_toggle"]_vars

\* the motion that switched relay 0 on has stopped: the pir_event with
\* motion = false went out and relay 0 is still on, no switch being held
C16_Witness ==
    /\ pc = "loop_heartbeat"
    /\ sampled = <<FALSE>>
    /\ ~pirState
    /\ manualOverride = AllFalse
    /\ relayStates = [i \in Switches |-> i = 0]
    /\ pinLevel[RELAY_PINS[0]] = HIGH
    /\ Len(wsSent) = 1
    /\ wsSent[1].type = "pir_event"

\* the identifiers of the four switches: "sw1" .. "sw4"
ValidSwitchIds == {SwitchName(i) : i \in Switches}

\* C15: handleWebSocketMessage() ignores a switch_toggle message whose
\* switchId is not the identifier of one of the switches 1..4: no relay state
\* and no relay pin changes, no switch_update is sent and no activity is
\* logged.
C15_InvalidSwitchIdIgnored ==
    [][(pc = "handleWebSocketMessage" /\ ~IsWiFiChange
          /\ wsEvent'.msg.type = "switch_toggle"
          /\ wsEvent'.msg.switchId \notin ValidSwitchIds)
        => /\ relayStates' = relayStates
           /\ pinLevel' = pinLevel
           /\ wsSent' = <<>>
           /\ httpSent' = <<>>]_vars

\* some message of the given type is among those the step has sent
Sends(type) == \E k \in 1..Len(wsSent') : wsSent'[k].type = type

\* C12: the heartbeat step of loop() sends a heartbeat exactly when the
\* difference millis() - lastHeartbeat, taken modulo 2^32, is more than 30000,
\* and then records millis() in lastHeartbeat; no other step sends a
\* heartbeat or writes lastHeartbeat, so two consecutive heartbeats are more
\* than 30000 ms apart, also across the wrap of millis(); and while millis()
\* is at most 30000 after boot no heartbeat is sent.
C12_HeartbeatInterval ==
    [][/\ (pc = "loop_heartbeat" /\ pc' = "loop_webSocket") =>
             IF U32Greater(U32Sub(now, lastHeartbeat), U32(HEARTBEAT_INTERVAL))
             THEN /\ Len(wsSent') = 1
                  /\ wsSent'[1].type = "heartbeat"
                  /\ wsSent'[1].uptime = now
                  /\ lastHeartbeat' = now
             ELSE /\ wsSent' = <<>>
                  /\ lastHeartbeat' = lastHeartbeat
       /\ (Sends("heartbeat") /\ ~IsWiFiChange) => pc = "loop_heartbeat"
       /\ (lastHeartbeat' # lastHeartbeat /\ pc' # "setup") => pc = "loop_heartbeat"
       /\ pc' = "setup" => (lastHeartbeat' = U32(0) /\ now' = U32(0))
       /\ (lastHeartbeat = U32(0) /\ now[1] = 0 /\ now[2] <= HEARTBEAT_INTERVAL
             /\ ~IsWiFiChange)
          => ~Sends("heartbeat")]_vars

\* millis() has wrapped around: the heartbeat before this one was sent
\* WrapLead ms before the wrap, none was sent 30000 ms after it, and this one
\* went out 31000 ms after it, at millis() = 16000
C12_Witness ==
    /\ pc = "loop_webSocket"
    /\ Len(wsSent) = 1
    /\ wsSent[1].type = "heartbeat"
    /\ wsSent[1].uptime = U32(31000 - WrapLead)
    /\ lastHeartbeat = U32(31000 - WrapLead)

\* the pir_event messages among those the step has sent
PirEventsSent == SelectSeq(wsSent', LAMBDA m : m.type = "pir_event")

\* C17: readPIRSensor() samples the PIR pin exactly when millis() -
\* lastSensorRead is more than 1000, and then records millis() in
\* lastSensorRead and leaves pirState equal to the sample; it sends one
\* pir_event, carrying the new level, when the sample differs from pirState and
\* none otherwise; no other step sends a pir_event or changes pirState, which
\* is false at boot, so that the pir_event messages of one boot alternate,
\* starting with motion = true.
C17_PirEventsAlternate ==
    [][/\ (pc = "readPIRSensor" /\ pc' = "loop_heartbeat") =>
             /\ IF U32Greater(U32Sub(now, lastSensorRead), U32(SENSOR_INTERVAL))
                THEN /\ sampled' \in {<<TRUE>>, <<FALSE>>}
                     /\ pirState' = sampled'[1]
                     /\ lastSensorRead' = now
                ELSE /\ sampled' = NoSample
                     /\ pirState' = pirState
                     /\ lastSensorRead' = lastSensorRead
             /\ IF pirState' # pirState
                THEN /\ Len(PirEventsSent) = 1
                     /\ PirEventsSent[1].motion = pirState'
                ELSE wsSent' = <<>>
       /\ (Sends("pir_event") /\ ~IsWiFiChange) => pc = "readPIRSensor"
       /\ (pirState' # pirState /\ pc' # "setup") => pc = "readPIRSensor"
       /\ pc' = "setup" => (~pirState' /\ lastSensorRead' = U32(0))
       /\ (lastSensorRead' # lastSensorRead /\ pc' # "setup")
             => pc = "readPIRSensor"]_vars

\* the motion seen 1000 ms ago is over, but the pin is not read again yet:
\* nothing was sampled in this iteration and pirState still says motion
C17_Witness ==
    /\ pc = "loop_heartbeat"
    /\ sampled = NoSample
    /\ pirState
    /\ U32Sub(now, lastSensorRead) = U32(SENSOR_INTERVAL)
    /\ wsSent = <<>>

\* {"protocol_version":1}
EmptyObjectInjected ==
    <<123, 34, 112, 114, 111, 116, 111, 99, 111, 108, 95, 118, 101, 114, 115,
      105, 111, 110, 34, 58, 49, 125>>

\* C18: for a string that ends with '}', fwInjectProtocolVersion leaves the
\* string without its last character, followed by ',' exactly when the
\* string contains a ':', followed by "protocol_version":1 and '}', so that
\* {} becomes {"protocol_version":1}; a string that does not end with '}',
\* the empty one included, is left as it is.
C18_InjectProtocolVersion ==
    [][(pc = "fwInjectProtocolVersion" /\ pc' = "injected") =>
        LET n == Len(json)
        IN  /\ IF n > 0 /\ json[n] = 125
               THEN json' =
                       [k \in 1..(n - 1) |-> json[k]]
                          \o (IF \E k \in 1..n : json[k] = 58 THEN <<44>> ELSE <<>>)
                          \o SubSeq(EmptyObjectInjected, 2, Len(EmptyObjectInjected))
               ELSE json' = json
            /\ json = <<123, 125>> => json' = EmptyObjectInjected]_vars

\* {:} has become {:,"protocol_version":1}
C18_Witness ==
    /\ pc = "injected"
    /\ json = <<123, 58, 44>>
                 \o SubSeq(EmptyObjectInjected, 2, Len(EmptyObjectInjected))

====
